---- MODULE Spec2Model ----
(***************************************************************************)
(* Payments engine: per-client account ledger, transaction journal with a  *)
(* dispute overlay, the transaction engine that dispatches records to      *)
(* them, and the streaming feed that delivers records in batches.          *)
(*                                                                         *)
(* Amounts are rust_decimal values; they are modelled as integers counted  *)
(* in the smallest unit the inputs use (addition, subtraction and          *)
(* comparison of Decimal are exact at these magnitudes).                   *)
(***************************************************************************)
EXTENDS Integers, Sequences, FiniteSets, TLC

\* ---------------------------------------------------------------- bounds
\* Records handed to the engine in one run of the direct driver.
MaxRecords == 4
\* Largest amount a Deposit/Withdrawal record carries.
MaxAmount == 1
\* Records handed to the engine in one run of the single-client driver.
MaxDeep == 5
\* Stream items the feed consumes after the header in one run.
MaxLines == 4
\* Largest batch size the feed is started with.
MaxBatch == 3
\* Calls made on one Account in a run of the ledger driver.
MaxCalls == 4
\* Largest amount the ledger driver passes to an Account method.
MaxLedgerAmount == 2

\* The client ids (u16) and transaction ids (u32) that appear in records.
Clients == {1, 2}
TxIds == {1, 2}
\* serde/parse accept any decimal, negative ones included.
Amounts == {-1} \cup (0..MaxAmount)

\* ---------------------------------------------------------------- models.rs
\* Option<T>: None is the empty tuple, Some(x) the one-element tuple.
None == <<>>
Some(x) == <<x>>
Unwrap(o) == o[1]

Deposit == "Deposit"
Withdrawal == "Withdrawal"
Dispute == "Dispute"
Resolve == "Resolve"
Chargeback == "Chargeback"
TransactionType == {Deposit, Withdrawal, Dispute, Resolve, Chargeback}

\* struct Transaction { transaction_type, client, tx, amount: Option<Decimal> }
Transaction(ty, c, t, a) ==
    [transaction_type |-> ty, client |-> c, tx |-> t, amount |-> a]

\* The records a caller can hand to the engine: an amount or none on a
\* Deposit/Withdrawal, no amount on the dispute-lifecycle kinds.
Records ==
    {Transaction(ty, c, t, a) :
        ty \in {Deposit, Withdrawal}, c \in Clients, t \in TxIds,
        a \in {Some(v) : v \in Amounts} \cup {None}}
    \cup
    {Transaction(ty, c, t, None) :
        ty \in {Dispute, Resolve, Chargeback}, c \in Clients, t \in TxIds}

Account_new(client_id) ==
    [client |-> client_id, available |-> 0, held |-> 0, total |-> 0,
     locked |-> FALSE]

\* Mutation: the funds check looks at the lock only.
Mut_has_sufficient_funds_lock_only(self, amount) ==
    ~self.locked

\* Mutation: the comparison is strict, an amount equal to available is
\* refused.
Mut_has_sufficient_funds_strict(self, amount) ==
    ~self.locked /\ self.available > amount

has_sufficient_funds(self, amount) ==
    ~self.locked /\ self.available >= amount

\* Each mutator returns the bool the method returns and the account after it.
Account_deposit(self, amount) ==
    IF self.locked
    THEN [ok |-> FALSE, account |-> self]
    ELSE [ok |-> TRUE,
          account |-> [self EXCEPT !.available = @ + amount,
                                   !.total = @ + amount]]

Account_withdraw(self, amount) ==
    IF ~has_sufficient_funds(self, amount)
    THEN [ok |-> FALSE, account |-> self]
    ELSE [ok |-> TRUE,
          account |-> [self EXCEPT !.available = @ - amount,
                                   !.total = @ - amount]]

\* Mutation: hold takes the amount out of available and never adds it to held.
Mut_hold_drops_held(self, amount) ==
    IF self.locked \/ self.available < amount
    THEN [ok |-> FALSE, account |-> self]
    ELSE [ok |-> TRUE,
          account |-> [self EXCEPT !.available = @ - amount]]

\* Mutation: hold checks the lock only, not the available funds.
Mut_hold_unchecked(self, amount) ==
    IF self.locked
    THEN [ok |-> FALSE, account |-> self]
    ELSE [ok |-> TRUE,
          account |-> [self EXCEPT !.available = @ - amount,
                                   !.held = @ + amount]]

\* Mutation: hold checks the available funds only, not the lock.
Mut_hold_ignores_lock(self, amount) ==
    IF self.available < amount
    THEN [ok |-> FALSE, account |-> self]
    ELSE [ok |-> TRUE,
          account |-> [self EXCEPT !.available = @ - amount,
                                   !.held = @ + amount]]

Account_hold(self, amount) ==
    IF self.locked \/ self.available < amount
    THEN [ok |-> FALSE, account |-> self]
    ELSE [ok |-> TRUE,
          account |-> [self EXCEPT !.available = @ - amount,
                                   !.held = @ + amount]]

\* Mutation: release takes the amount out of held and never returns it to
\* available.
Mut_release_drops_available(self, amount) ==
    IF self.locked \/ self.held < amount
    THEN [ok |-> FALSE, account |-> self]
    ELSE [ok |-> TRUE,
          account |-> [self EXCEPT !.held = @ - amount]]

Account_release(self, amount) ==
    IF self.locked \/ self.held < amount
    THEN [ok |-> FALSE, account |-> self]
    ELSE [ok |-> TRUE,
          account |-> [self EXCEPT !.held = @ - amount,
                                   !.available = @ + amount]]

\* Mutation: chargeback removes the funds and leaves the account unlocked.
Mut_chargeback_no_lock(self, amount) ==
    IF self.locked \/ self.held < amount
    THEN [ok |-> FALSE, account |-> self]
    ELSE [ok |-> TRUE,
          account |-> [self EXCEPT !.held = @ - amount,
                                   !.total = @ - amount]]

\* Mutation: chargeback takes the amount out of held and locks the account,
\* and leaves total as it was.
Mut_chargeback_keeps_total(self, amount) ==
    IF self.locked \/ self.held < amount
    THEN [ok |-> FALSE, account |-> self]
    ELSE [ok |-> TRUE,
          account |-> [self EXCEPT !.held = @ - amount,
                                   !.locked = TRUE]]

Account_chargeback(self, amount) ==
    IF self.locked \/ self.held < amount
    THEN [ok |-> FALSE, account |-> self]
    ELSE [ok |-> TRUE,
          account |-> [self EXCEPT !.held = @ - amount,
                                   !.total = @ - amount,
                                   !.locked = TRUE]]

\* HashMap::insert: the map with key k bound to v, k added if absent.
MapInsert(m, k, v) ==
    [x \in (DOMAIN m) \cup {k} |-> IF x = k THEN v ELSE m[x]]

EmptyMap == [x \in {} |-> None]

\* TransactionStore { transactions: HashMap<u32, Transaction>,
\*                    disputed: HashMap<u32, bool> }
\* Mutation: entry(tx.tx).or_insert(tx): the first record under a tx id is
\* kept, a later one is not stored.
Mut_add_transaction_keeps_first(transactions, tx) ==
    IF tx.tx \in DOMAIN transactions
    THEN transactions
    ELSE [x \in (DOMAIN transactions) \cup {tx.tx} |->
             IF x = tx.tx THEN tx ELSE transactions[x]]

add_transaction(transactions, tx) ==
    MapInsert(transactions, tx.tx, tx)

get_transaction(transactions, tx_id) ==
    IF tx_id \in DOMAIN transactions THEN Some(transactions[tx_id]) ELSE None

set_disputed(disputed, tx_id, status) ==
    MapInsert(disputed, tx_id, status)

is_disputed(disputed, tx_id) ==
    IF tx_id \in DOMAIN disputed THEN disputed[tx_id] ELSE FALSE

\* Mutation: insert(client_id, Account::new(client_id)) in place of
\* entry().or_insert_with(): an existing account is replaced by a fresh one.
Mut_get_or_create_overwrites(accounts, client_id) ==
    [x \in (DOMAIN accounts) \cup {client_id} |->
        IF x = client_id THEN [client |-> client_id, available |-> 0,
                               held |-> 0, total |-> 0, locked |-> FALSE]
        ELSE accounts[x]]

\* AccountStore { accounts: HashMap<u16, Account> }
\* entry(client_id).or_insert_with(|| Account::new(client_id)): the map after
\* the call; the account referred to is the map's value at client_id.
get_or_create_account(accounts, client_id) ==
    IF client_id \in DOMAIN accounts
    THEN accounts
    ELSE MapInsert(accounts, client_id, Account_new(client_id))

get_all_accounts(accounts) ==
    {accounts[c] : c \in DOMAIN accounts}

\* ---------------------------------------------------------------- error.rs
\* Result<(), PaymentEngineError> as process_transaction returns it.
MissingAmount(tx_id) == <<"MissingAmount", tx_id>>
Ok == <<"Ok">>

\* ---------------------------------------------------------------- engine.rs
\* struct PaymentEngine { accounts, transactions (journal + disputed) }
PaymentEngine_new ==
    [accounts |-> EmptyMap, transactions |-> EmptyMap, disputed |-> EmptyMap]

\* What a handler leaves behind: the engine after it and the Result it returns.
Return(self, res) == [engine |-> self, result |-> res]

\* Mutation: the record is journaled before its amount is looked at.
Mut_handle_deposit_journals_first(self, tx) ==
    LET journaled ==
          [self EXCEPT !.transactions = add_transaction(self.transactions, tx)]
    IN IF tx.amount = None
       THEN Return(journaled, MissingAmount(tx.tx))
       ELSE
         LET accounts == get_or_create_account(self.accounts, tx.client)
             r == Account_deposit(accounts[tx.client], Unwrap(tx.amount))
         IN Return([journaled EXCEPT
                      !.accounts = [accounts EXCEPT ![tx.client] = r.account]],
                   Ok)

handle_deposit(self, tx) ==
    IF tx.amount = None
    THEN Return(self, MissingAmount(tx.tx))
    ELSE
      LET accounts == get_or_create_account(self.accounts, tx.client)
          amount == Unwrap(tx.amount)
          r == Account_deposit(accounts[tx.client], amount)
      IN Return([self EXCEPT
                   !.accounts = [accounts EXCEPT ![tx.client] = r.account],
                   !.transactions = add_transaction(self.transactions, tx)],
                Ok)

\* Mutation: no has_sufficient_funds check before withdraw; the record is
\* journaled whatever withdraw returns.
Mut_handle_withdrawal_unchecked(self, tx) ==
    IF tx.amount = None
    THEN Return(self, MissingAmount(tx.tx))
    ELSE
      LET accounts == get_or_create_account(self.accounts, tx.client)
          r == Account_withdraw(accounts[tx.client], Unwrap(tx.amount))
      IN Return([self EXCEPT
                   !.accounts = [accounts EXCEPT ![tx.client] = r.account],
                   !.transactions = add_transaction(self.transactions, tx)],
                Ok)

\* Mutation: the withdrawal is journaled before its amount is looked at.
Mut_handle_withdrawal_journals_first(self, tx) ==
    LET journaled ==
          [self EXCEPT !.transactions = add_transaction(self.transactions, tx)]
    IN IF tx.amount = None
       THEN Return(journaled, MissingAmount(tx.tx))
       ELSE
         LET accounts == get_or_create_account(self.accounts, tx.client)
             account == accounts[tx.client]
             amount == Unwrap(tx.amount)
         IN IF ~has_sufficient_funds(account, amount)
            THEN Return([self EXCEPT !.accounts = accounts], Ok)
            ELSE
              LET r == Account_withdraw(account, amount)
              IN Return([journaled EXCEPT
                           !.accounts = [accounts EXCEPT
                                           ![tx.client] = r.account]],
                        Ok)

handle_withdrawal(self, tx) ==
    IF tx.amount = None
    THEN Return(self, MissingAmount(tx.tx))
    ELSE
      LET accounts == get_or_create_account(self.accounts, tx.client)
          account == accounts[tx.client]
          amount == Unwrap(tx.amount)
      IN IF ~has_sufficient_funds(account, amount)
         THEN Return([self EXCEPT !.accounts = accounts], Ok)
         ELSE
           LET r == Account_withdraw(account, amount)
           IN Return([self EXCEPT
                        !.accounts = [accounts EXCEPT ![tx.client] = r.account],
                        !.transactions = add_transaction(self.transactions, tx)],
                     Ok)

\* Mutation: the transaction is marked disputed and the funds are never held.
Mut_handle_dispute_no_hold(self, tx) ==
    LET found == get_transaction(self.transactions, tx.tx)
        orig_tx == Unwrap(found)
    IN IF found = None THEN Return(self, Ok)
       ELSE IF orig_tx.client # tx.client THEN Return(self, Ok)
       ELSE IF orig_tx.transaction_type # Deposit THEN Return(self, Ok)
       ELSE IF is_disputed(self.disputed, tx.tx) THEN Return(self, Ok)
       ELSE Return([self EXCEPT
                      !.disputed = set_disputed(self.disputed, tx.tx, TRUE)],
                   Ok)

\* Mutation: a transaction with any entry in the disputed map, true or false,
\* is taken to be under dispute.
Mut_handle_dispute_once_only(self, tx) ==
    LET found == get_transaction(self.transactions, tx.tx)
        orig_tx == Unwrap(found)
    IN IF found = None THEN Return(self, Ok)
       ELSE IF orig_tx.client # tx.client THEN Return(self, Ok)
       ELSE IF orig_tx.transaction_type # Deposit THEN Return(self, Ok)
       ELSE IF tx.tx \in DOMAIN self.disputed THEN Return(self, Ok)
       ELSE IF orig_tx.amount = None
            THEN Return(self, MissingAmount(tx.tx))
       ELSE
         LET marked == set_disputed(self.disputed, tx.tx, TRUE)
             accounts == get_or_create_account(self.accounts, tx.client)
             r == Account_hold(accounts[tx.client],
                                Unwrap(orig_tx.amount))
         IN Return([self EXCEPT
                      !.accounts = [accounts EXCEPT ![tx.client] = r.account],
                      !.disputed = IF r.ok THEN marked
                                   ELSE set_disputed(marked, tx.tx, FALSE)],
                   Ok)

\* Mutation: no client comparison, and the hold is taken on the account of
\* the client the journal entry names.
Mut_handle_dispute_holds_on_owner(self, tx) ==
    LET found == get_transaction(self.transactions, tx.tx)
        orig_tx == Unwrap(found)
    IN IF found = None THEN Return(self, Ok)
       ELSE IF orig_tx.transaction_type # Deposit THEN Return(self, Ok)
       ELSE IF is_disputed(self.disputed, tx.tx) THEN Return(self, Ok)
       ELSE IF orig_tx.amount = None
            THEN Return(self, MissingAmount(tx.tx))
       ELSE
         LET marked == set_disputed(self.disputed, tx.tx, TRUE)
             accounts == get_or_create_account(self.accounts, orig_tx.client)
             r == Account_hold(accounts[orig_tx.client],
                                Unwrap(orig_tx.amount))
         IN Return([self EXCEPT
                      !.accounts =
                          [accounts EXCEPT ![orig_tx.client] = r.account],
                      !.disputed = IF r.ok THEN marked
                                   ELSE set_disputed(marked, tx.tx, FALSE)],
                   Ok)

\* Mutation: the kind of the journal entry is not looked at.
Mut_handle_dispute_no_kind_check(self, tx) ==
    LET found == get_transaction(self.transactions, tx.tx)
        orig_tx == Unwrap(found)
    IN IF found = None THEN Return(self, Ok)
       ELSE IF orig_tx.client # tx.client THEN Return(self, Ok)
       ELSE IF is_disputed(self.disputed, tx.tx) THEN Return(self, Ok)
       ELSE IF orig_tx.amount = None
            THEN Return(self, MissingAmount(tx.tx))
       ELSE
         LET marked == set_disputed(self.disputed, tx.tx, TRUE)
             accounts == get_or_create_account(self.accounts, tx.client)
             r == Account_hold(accounts[tx.client],
                                Unwrap(orig_tx.amount))
         IN Return([self EXCEPT
                      !.accounts = [accounts EXCEPT ![tx.client] = r.account],
                      !.disputed = IF r.ok THEN marked
                                   ELSE set_disputed(marked, tx.tx, FALSE)],
                   Ok)

\* Mutation: the disputed flag is not reset when the hold fails.
Mut_handle_dispute_no_rollback(self, tx) ==
    LET found == get_transaction(self.transactions, tx.tx)
        orig_tx == Unwrap(found)
    IN IF found = None THEN Return(self, Ok)
       ELSE IF orig_tx.client # tx.client THEN Return(self, Ok)
       ELSE IF orig_tx.transaction_type # Deposit THEN Return(self, Ok)
       ELSE IF is_disputed(self.disputed, tx.tx) THEN Return(self, Ok)
       ELSE IF orig_tx.amount = None
            THEN Return(self, MissingAmount(tx.tx))
       ELSE
         LET marked == set_disputed(self.disputed, tx.tx, TRUE)
             accounts == get_or_create_account(self.accounts, tx.client)
             r == Account_hold(accounts[tx.client],
                                Unwrap(orig_tx.amount))
         IN Return([self EXCEPT
                      !.accounts = [accounts EXCEPT ![tx.client] = r.account],
                      !.disputed = marked],
                   Ok)

\* Mutation: a Dispute is not refused when the entry is already disputed.
Mut_handle_dispute_again(self, tx) ==
    LET found == get_transaction(self.transactions, tx.tx)
        orig_tx == Unwrap(found)
    IN IF found = None THEN Return(self, Ok)
       ELSE IF orig_tx.client # tx.client THEN Return(self, Ok)
       ELSE IF orig_tx.transaction_type # Deposit THEN Return(self, Ok)
       ELSE IF orig_tx.amount = None
            THEN Return(self, MissingAmount(tx.tx))
       ELSE
         LET marked == set_disputed(self.disputed, tx.tx, TRUE)
             accounts == get_or_create_account(self.accounts, tx.client)
             r == Account_hold(accounts[tx.client],
                                Unwrap(orig_tx.amount))
         IN Return([self EXCEPT
                      !.accounts = [accounts EXCEPT ![tx.client] = r.account],
                      !.disputed = IF r.ok THEN marked
                                   ELSE set_disputed(marked, tx.tx, FALSE)],
                   Ok)

\* Mutation: the entry's client is not compared with the record's client.
Mut_handle_dispute_no_client_check(self, tx) ==
    LET found == get_transaction(self.transactions, tx.tx)
        orig_tx == Unwrap(found)
    IN IF found = None THEN Return(self, Ok)
       ELSE IF orig_tx.transaction_type # Deposit THEN Return(self, Ok)
       ELSE IF is_disputed(self.disputed, tx.tx) THEN Return(self, Ok)
       ELSE IF orig_tx.amount = None
            THEN Return(self, MissingAmount(tx.tx))
       ELSE
         LET marked == set_disputed(self.disputed, tx.tx, TRUE)
             accounts == get_or_create_account(self.accounts, tx.client)
             r == Account_hold(accounts[tx.client],
                                Unwrap(orig_tx.amount))
         IN Return([self EXCEPT
                      !.accounts = [accounts EXCEPT ![tx.client] = r.account],
                      !.disputed = IF r.ok THEN marked
                                   ELSE set_disputed(marked, tx.tx, FALSE)],
                   Ok)

handle_dispute(self, tx) ==
    LET found == get_transaction(self.transactions, tx.tx)
        orig_tx == Unwrap(found)
    IN IF found = None THEN Return(self, Ok)
       ELSE IF orig_tx.client # tx.client THEN Return(self, Ok)
       ELSE IF orig_tx.transaction_type # Deposit THEN Return(self, Ok)
       ELSE IF is_disputed(self.disputed, tx.tx) THEN Return(self, Ok)
       ELSE IF orig_tx.amount = None
            THEN Return(self, MissingAmount(tx.tx))
       ELSE
         LET marked == set_disputed(self.disputed, tx.tx, TRUE)
             accounts == get_or_create_account(self.accounts, tx.client)
             r == Account_hold(accounts[tx.client],
                                Unwrap(orig_tx.amount))
         IN Return([self EXCEPT
                      !.accounts = [accounts EXCEPT ![tx.client] = r.account],
                      !.disputed = IF r.ok THEN marked
                                   ELSE set_disputed(marked, tx.tx, FALSE)],
                   Ok)

\* Mutation: the disputed flag is cleared whatever release returns.
Mut_handle_resolve_clears_always(self, tx) ==
    LET found == get_transaction(self.transactions, tx.tx)
        orig_tx == Unwrap(found)
    IN IF found = None THEN Return(self, Ok)
       ELSE IF orig_tx.client # tx.client THEN Return(self, Ok)
       ELSE IF ~is_disputed(self.disputed, tx.tx) THEN Return(self, Ok)
       ELSE IF orig_tx.amount = None
            THEN Return(self, MissingAmount(tx.tx))
       ELSE
         LET cleared == set_disputed(self.disputed, tx.tx, FALSE)
             accounts == get_or_create_account(self.accounts, tx.client)
             r == Account_release(accounts[tx.client],
                                Unwrap(orig_tx.amount))
         IN Return([self EXCEPT
                      !.accounts = [accounts EXCEPT ![tx.client] = r.account],
                      !.disputed = cleared],
                   Ok)

\* Mutation: the resolve does not compare the entry's client with the
\* record's client.
Mut_handle_resolve_no_client_check(self, tx) ==
    LET found == get_transaction(self.transactions, tx.tx)
        orig_tx == Unwrap(found)
    IN IF found = None THEN Return(self, Ok)
       ELSE IF ~is_disputed(self.disputed, tx.tx) THEN Return(self, Ok)
       ELSE IF orig_tx.amount = None
            THEN Return(self, MissingAmount(tx.tx))
       ELSE
         LET cleared == set_disputed(self.disputed, tx.tx, FALSE)
             accounts == get_or_create_account(self.accounts, tx.client)
             r == Account_release(accounts[tx.client],
                                Unwrap(orig_tx.amount))
         IN Return([self EXCEPT
                      !.accounts = [accounts EXCEPT ![tx.client] = r.account],
                      !.disputed = IF r.ok THEN cleared
                                   ELSE set_disputed(cleared, tx.tx, TRUE)],
                   Ok)

handle_resolve(self, tx) ==
    LET found == get_transaction(self.transactions, tx.tx)
        orig_tx == Unwrap(found)
    IN IF found = None THEN Return(self, Ok)
       ELSE IF orig_tx.client # tx.client THEN Return(self, Ok)
       ELSE IF ~is_disputed(self.disputed, tx.tx) THEN Return(self, Ok)
       ELSE IF orig_tx.amount = None
            THEN Return(self, MissingAmount(tx.tx))
       ELSE
         LET cleared == set_disputed(self.disputed, tx.tx, FALSE)
             accounts == get_or_create_account(self.accounts, tx.client)
             r == Account_release(accounts[tx.client],
                                Unwrap(orig_tx.amount))
         IN Return([self EXCEPT
                      !.accounts = [accounts EXCEPT ![tx.client] = r.account],
                      !.disputed = IF r.ok THEN cleared
                                   ELSE set_disputed(cleared, tx.tx, TRUE)],
                   Ok)

\* Mutation: the chargeback does not ask whether the entry is under dispute.
Mut_handle_chargeback_no_disputed_check(self, tx) ==
    LET found == get_transaction(self.transactions, tx.tx)
        orig_tx == Unwrap(found)
    IN IF found = None THEN Return(self, Ok)
       ELSE IF orig_tx.client # tx.client THEN Return(self, Ok)
       ELSE IF orig_tx.amount = None
            THEN Return(self, MissingAmount(tx.tx))
       ELSE
         LET cleared == set_disputed(self.disputed, tx.tx, FALSE)
             accounts == get_or_create_account(self.accounts, tx.client)
             r == Account_chargeback(accounts[tx.client],
                                Unwrap(orig_tx.amount))
         IN Return([self EXCEPT
                      !.accounts = [accounts EXCEPT ![tx.client] = r.account],
                      !.disputed = IF r.ok THEN cleared
                                   ELSE set_disputed(cleared, tx.tx, TRUE)],
                   Ok)

\* Mutation: a chargeback that succeeds leaves the disputed flag set.
Mut_handle_chargeback_keeps_flag(self, tx) ==
    LET found == get_transaction(self.transactions, tx.tx)
        orig_tx == Unwrap(found)
    IN IF found = None THEN Return(self, Ok)
       ELSE IF orig_tx.client # tx.client THEN Return(self, Ok)
       ELSE IF ~is_disputed(self.disputed, tx.tx) THEN Return(self, Ok)
       ELSE IF orig_tx.amount = None
            THEN Return(self, MissingAmount(tx.tx))
       ELSE
         LET accounts == get_or_create_account(self.accounts, tx.client)
             r == Account_chargeback(accounts[tx.client],
                                Unwrap(orig_tx.amount))
         IN Return([self EXCEPT
                      !.accounts = [accounts EXCEPT ![tx.client] = r.account]],
                   Ok)

handle_chargeback(self, tx) ==
    LET found == get_transaction(self.transactions, tx.tx)
        orig_tx == Unwrap(found)
    IN IF found = None THEN Return(self, Ok)
       ELSE IF orig_tx.client # tx.client THEN Return(self, Ok)
       ELSE IF ~is_disputed(self.disputed, tx.tx) THEN Return(self, Ok)
       ELSE IF orig_tx.amount = None
            THEN Return(self, MissingAmount(tx.tx))
       ELSE
         LET cleared == set_disputed(self.disputed, tx.tx, FALSE)
             accounts == get_or_create_account(self.accounts, tx.client)
             r == Account_chargeback(accounts[tx.client],
                                Unwrap(orig_tx.amount))
         IN Return([self EXCEPT
                      !.accounts = [accounts EXCEPT ![tx.client] = r.account],
                      !.disputed = IF r.ok THEN cleared
                                   ELSE set_disputed(cleared, tx.tx, TRUE)],
                   Ok)

\* Mutation: no locked-account check before the dispatch.
Mut_process_transaction_no_gate(self, transaction) ==
    LET accounts == get_or_create_account(self.accounts, transaction.client)
        e == [self EXCEPT !.accounts = accounts]
        ty == transaction.transaction_type
    IN CASE ty = Deposit -> handle_deposit(e, transaction)
         [] ty = Withdrawal -> handle_withdrawal(e, transaction)
         [] ty = Dispute -> handle_dispute(e, transaction)
         [] ty = Resolve -> handle_resolve(e, transaction)
         [] ty = Chargeback -> handle_chargeback(e, transaction)

\* Mutation: the lock gate looks the account up (accounts.get) and creates
\* none; an account comes to exist only where a handler asks for it.
Mut_process_transaction_no_create(self, transaction) ==
    LET ty == transaction.transaction_type
        locked == /\ transaction.client \in DOMAIN self.accounts
                  /\ self.accounts[transaction.client].locked
    IN IF locked /\ ty # Dispute
       THEN Return(self, Ok)
       ELSE CASE ty = Deposit -> handle_deposit(self, transaction)
              [] ty = Withdrawal -> handle_withdrawal(self, transaction)
              [] ty = Dispute -> handle_dispute(self, transaction)
              [] ty = Resolve -> handle_resolve(self, transaction)
              [] ty = Chargeback -> handle_chargeback(self, transaction)

\* Mutation: the lock gate lets Deposits through as well as Disputes.
Mut_process_transaction_gate_spares_deposit(self, transaction) ==
    LET accounts == get_or_create_account(self.accounts, transaction.client)
        e == [self EXCEPT !.accounts = accounts]
        ty == transaction.transaction_type
    IN IF accounts[transaction.client].locked /\ ty \notin {Dispute, Deposit}
       THEN Return(e, Ok)
       ELSE CASE ty = Deposit -> handle_deposit(e, transaction)
              [] ty = Withdrawal -> handle_withdrawal(e, transaction)
              [] ty = Dispute -> handle_dispute(e, transaction)
              [] ty = Resolve -> handle_resolve(e, transaction)
              [] ty = Chargeback -> handle_chargeback(e, transaction)

process_transaction(self, transaction) ==
    LET accounts == get_or_create_account(self.accounts, transaction.client)
        e == [self EXCEPT !.accounts = accounts]
        ty == transaction.transaction_type
    IN IF accounts[transaction.client].locked /\ ty # Dispute
       THEN Return(e, Ok)
       ELSE CASE ty = Deposit -> handle_deposit(e, transaction)
              [] ty = Withdrawal -> handle_withdrawal(e, transaction)
              [] ty = Dispute -> handle_dispute(e, transaction)
              [] ty = Resolve -> handle_resolve(e, transaction)
              [] ty = Chargeback -> handle_chargeback(e, transaction)


\* The Account method process_transaction calls for a record, with the amount
\* it passes: None when the record returns before any of the five mutators
\* (has_sufficient_funds is a query, not a mutator).
LedgerCall(self, transaction) ==
    LET account == get_or_create_account(self.accounts,
                                         transaction.client)[transaction.client]
        ty == transaction.transaction_type
        found == get_transaction(self.transactions, transaction.tx)
        orig_tx == Unwrap(found)
    IN IF account.locked /\ ty # Dispute THEN None
       ELSE IF ty \in {Deposit, Withdrawal}
       THEN IF transaction.amount = None THEN None
            ELSE IF ty = Deposit
            THEN Some([op |-> "deposit", amount |-> Unwrap(transaction.amount)])
            ELSE IF ~has_sufficient_funds(account, Unwrap(transaction.amount))
            THEN None
            ELSE Some([op |-> "withdraw",
                       amount |-> Unwrap(transaction.amount)])
       ELSE IF found = None THEN None
       ELSE IF orig_tx.client # transaction.client THEN None
       ELSE IF ty = Dispute
       THEN IF orig_tx.transaction_type # Deposit THEN None
            ELSE IF is_disputed(self.disputed, transaction.tx) THEN None
            ELSE IF orig_tx.amount = None THEN None
            ELSE Some([op |-> "hold", amount |-> Unwrap(orig_tx.amount)])
       ELSE IF ~is_disputed(self.disputed, transaction.tx) THEN None
       ELSE IF orig_tx.amount = None THEN None
       ELSE Some([op |-> IF ty = Resolve THEN "release" ELSE "chargeback",
                  amount |-> Unwrap(orig_tx.amount)])

\* The Account mutator call of a record that returned true, with the amount
\* passed: None when no call was made or the call returned false.
AcceptedCall(self, transaction) ==
    LET account == get_or_create_account(self.accounts,
                                         transaction.client)[transaction.client]
        c == LedgerCall(self, transaction)
        op == Unwrap(c).op
        amount == Unwrap(c).amount
        r == CASE op = "deposit" -> Account_deposit(account, amount)
               [] op = "withdraw" -> Account_withdraw(account, amount)
               [] op = "hold" -> Account_hold(account, amount)
               [] op = "release" -> Account_release(account, amount)
               [] op = "chargeback" -> Account_chargeback(account, amount)
    IN IF c = None THEN None
       ELSE IF r.ok THEN c
       ELSE None

\* for transaction in transactions.drain(..): the records are applied front to
\* back, a process_transaction error is logged and the loop goes on. Returns
\* the engine after the batch, the drained vector, the records handed to
\* process_transaction in order, the errors logged, and Ok(()).
RECURSIVE drain_from(_, _, _, _)
drain_from(self, transactions, done, errors) ==
    IF transactions = <<>>
    THEN [engine |-> self, transactions |-> <<>>, applied |-> done,
          errors |-> errors, result |-> Ok]
    ELSE \* r: what process_transaction returned for the head record
         CHOOSE out \in
           {drain_from(r.engine, Tail(transactions),
                       Append(done, Head(transactions)),
                       IF r.result = Ok THEN errors
                       ELSE Append(errors, r.result)) :
              r \in {process_transaction(self, Head(transactions))}} : TRUE

\* Mutation: the batch is emptied from the back (pop) instead of drained
\* from the front.
RECURSIVE Mut_pop_from(_, _, _)
Mut_pop_from(self, transactions, done) ==
    IF transactions = <<>>
    THEN [engine |-> self, transactions |-> <<>>, applied |-> done,
          errors |-> <<>>, result |-> Ok]
    ELSE LET n == Len(transactions)
             r == process_transaction(self, transactions[n])
         IN Mut_pop_from(r.engine, SubSeq(transactions, 1, n - 1),
                         Append(done, transactions[n]))

Mut_process_transaction_batch_reversed(self, transactions) ==
    Mut_pop_from(self, transactions, <<>>)

\* Mutation: self.process_transaction(transaction).await? in the loop: the
\* first error ends the batch and is returned; the drain drops the rest.
RECURSIVE Mut_drain_until_error(_, _, _)
Mut_drain_until_error(self, transactions, done) ==
    IF transactions = <<>>
    THEN [engine |-> self, transactions |-> <<>>, applied |-> done,
          errors |-> <<>>, result |-> Ok]
    ELSE LET r == process_transaction(self, Head(transactions))
         IN IF r.result # Ok
            THEN [engine |-> r.engine, transactions |-> <<>>,
                  applied |-> Append(done, Head(transactions)),
                  errors |-> <<>>, result |-> r.result]
            ELSE Mut_drain_until_error(r.engine, Tail(transactions),
                                       Append(done, Head(transactions)))

Mut_process_transaction_batch_propagates(self, transactions) ==
    Mut_drain_until_error(self, transactions, <<>>)

process_transaction_batch(self, transactions) ==
    drain_from(self, transactions, <<>>, <<>>)

\* ---------------------------------------------------------------- processor.rs
\* A line is the tuple of its comma-separated fields, each trimmed
\* (line.split(',').map(|s| s.trim())).
parse_u16(s) ==
    CASE s = "1" -> Some(1)
      [] s = "2" -> Some(2)
      [] OTHER -> None

parse_u32(s) ==
    CASE s = "1" -> Some(1)
      [] s = "2" -> Some(2)
      [] OTHER -> None

parse_decimal(s) ==
    CASE s = "1" -> Some(1)
      [] s = "2" -> Some(2)
      [] s = "-1" -> Some(-1)
      [] OTHER -> None

parse_type(s) ==
    CASE s = "deposit" -> Some(Deposit)
      [] s = "withdrawal" -> Some(Withdrawal)
      [] s = "dispute" -> Some(Dispute)
      [] s = "resolve" -> Some(Resolve)
      [] s = "chargeback" -> Some(Chargeback)
      [] OTHER -> None

\* Some(transaction) for Ok(transaction), None for any of the Err returns.
parse_transaction(parts) ==
    IF Len(parts) < 3 THEN None
    ELSE IF parse_type(parts[1]) = None THEN None
    ELSE IF parse_u16(parts[2]) = None THEN None
    ELSE IF parse_u32(parts[3]) = None THEN None
    ELSE IF Len(parts) > 3 /\ parts[4] # ""
         THEN IF parse_decimal(parts[4]) = None THEN None
              ELSE Some(Transaction(Unwrap(parse_type(parts[1])),
                                    Unwrap(parse_u16(parts[2])),
                                    Unwrap(parse_u32(parts[3])),
                                    Some(Unwrap(parse_decimal(parts[4])))))
         ELSE Some(Transaction(Unwrap(parse_type(parts[1])),
                               Unwrap(parse_u16(parts[2])),
                               Unwrap(parse_u32(parts[3])),
                               None))

\* The lines the input file holds in a run.
FeedLines ==
    { <<"deposit", "1", "1", "2">>,
      <<"deposit", "2", "2", "1">>,
      <<"deposit", "1", "1", "-1">>,
      <<"withdrawal", "1", "2", "1">>,
      <<"dispute", "1", "1", "">>,
      <<"resolve", "1", "1", "">>,
      <<"chargeback", "1", "1">>,
      <<"deposit", "1", "2">>,
      <<"invalid", "1", "2", "1">>,
      <<"deposit", "abc", "1", "1">>,
      <<"deposit", "2", "1", "abc">>,
      <<"deposit">> }

\* An item of the line stream: Ok(line), or Err(e) of a failed read.
StreamItems ==
    {[ok |-> TRUE, line |-> l] : l \in FeedLines}
    \cup {[ok |-> FALSE, line |-> <<>>]}

BatchSizes == 0..MaxBatch

\* ---------------------------------------------------------------- state
VARIABLES
    engine,       \* the PaymentEngine: accounts, transactions, disputed
    pre,          \* the engine as it was when the last record arrived
    last,         \* Some(the last record handed to process_transaction)
    result,       \* what process_transaction returned for it
    prior,        \* Some([tx, account]) when the record before the last one
                  \* was a Dispute that took effect: that record and its
                  \* client's account as it was before it
    steps,        \* records handed to the engine by the direct driver
    nonneg,       \* no Deposit/Withdrawal so far carried a negative amount
    resolved,     \* the journal entries a Resolve has released the held
                  \* funds of
    holds,        \* per tx id, the Disputes that moved funds into held since
                  \* the last Resolve or Chargeback that cleared its flag
    pc,           \* where process_transactions_stream is
    batch_size,   \* options.batch_size
    batch,        \* the Vec<Transaction> being filled
    line_count,   \* lines read (line_count)
    items,        \* stream items consumed after the header
    parsed,       \* the records parse_transaction returned, in input order
    applied,      \* the records handed to process_transaction, in order
    skipped,      \* stream items dropped: failed reads and lines that did
                  \* not parse
    errors,       \* the errors process_transaction_batch logged, in order
    batch_results, \* what the calls of process_transaction_batch returned
    feed_result,  \* what process_transactions_stream returned
    acct,         \* an Account whose methods are called directly
    call,         \* Some([op, amount, before, ok]): the last such call, the
                  \* account before it and the bool it returned
    calls,        \* calls made on acct
    used,         \* the tx ids Deposit/Withdrawal records have carried
    reused,       \* some Deposit/Withdrawal record carried a tx id that an
                  \* earlier Deposit/Withdrawal record had carried
    books         \* per client: the sums of the amounts of the deposit(),
                  \* withdraw() and chargeback() calls that returned true,
                  \* and the number of the chargeback() calls that did

driver_vars == <<pre, last, result, prior, steps, nonneg, resolved, holds>>
feed_vars == <<pc, batch_size, batch, line_count, items, parsed, applied,
               skipped, errors, batch_results, feed_result>>
ledger_vars == <<acct, call, calls>>
audit_vars == <<used, reused, books>>
vars == <<engine, pre, last, result, prior, steps, nonneg, resolved, holds, pc,
          batch_size, batch, line_count, items, parsed, applied, skipped,
          errors, batch_results, feed_result, acct, call, calls, used,
          reused, books>>

NonNegative(tx) ==
    tx.amount = None \/ Unwrap(tx.amount) >= 0

\* The account of a client in an engine; the account get_or_create_account
\* would create when there is none yet.
AccountOf(e, c) ==
    IF c \in DOMAIN e.accounts THEN e.accounts[c] ELSE Account_new(c)

\* All four checks of handle_dispute pass for record tx in engine e.
DisputeChecksPass(e, tx) ==
    /\ tx.tx \in DOMAIN e.transactions
    /\ e.transactions[tx.tx].client = tx.client
    /\ e.transactions[tx.tx].transaction_type = Deposit
    /\ ~is_disputed(e.disputed, tx.tx)

\* The lookup, client and disputed checks of handle_resolve and
\* handle_chargeback pass for record tx in engine e.
SettleChecksPass(e, tx) ==
    /\ tx.tx \in DOMAIN e.transactions
    /\ e.transactions[tx.tx].client = tx.client
    /\ is_disputed(e.disputed, tx.tx)

EntryAmount(e, tx) ==
    Unwrap(e.transactions[tx.tx].amount)

\* Record tx is a Resolve that passes its checks in engine e and whose release
\* can be made.
ResolveTakesEffect(e, tx) ==
    /\ tx.transaction_type = Resolve
    /\ SettleChecksPass(e, tx)
    /\ ~AccountOf(e, tx.client).locked
    /\ AccountOf(e, tx.client).held >= EntryAmount(e, tx)

\* Record tx was a Dispute that passed its checks in engine e and whose hold
\* could be taken.
DisputeTakesEffect(e, tx) ==
    /\ tx.transaction_type = Dispute
    /\ DisputeChecksPass(e, tx)
    /\ ~AccountOf(e, tx.client).locked
    /\ AccountOf(e, tx.client).available >= EntryAmount(e, tx)

Init ==
    /\ engine = PaymentEngine_new
    /\ pre = PaymentEngine_new
    /\ last = None
    /\ result = Ok
    /\ prior = None
    /\ steps = 0
    /\ nonneg = TRUE
    /\ resolved = {}
    /\ holds = [t \in TxIds |-> 0]
    /\ pc = "start"
    /\ batch_size = 0
    /\ batch = <<>>
    /\ line_count = 0
    /\ items = 0
    /\ parsed = <<>>
    /\ applied = <<>>
    /\ skipped = 0
    /\ errors = <<>>
    /\ batch_results = {}
    /\ feed_result = None
    /\ acct = Account_new(1)
    /\ call = None
    /\ calls = 0
    /\ used = {}
    /\ reused = FALSE
    /\ books = [c \in Clients |-> [deposits |-> 0, withdrawals |-> 0,
                                   chargebacks |-> 0, chargeback_count |-> 0]]

\* ---------------------------------------------------------------- direct driver
\* One call of PaymentEngine::process_transaction(tx), as the engine's callers
\* and tests make it.
Apply(tx) ==
    /\ pc = "start"
    /\ LET r == process_transaction(engine, tx)
       IN /\ engine' = r.engine
          /\ result' = r.result
    /\ pre' = engine
    /\ last' = Some(tx)
    /\ prior' = IF last # None /\ DisputeTakesEffect(pre, Unwrap(last))
                THEN Some([tx |-> Unwrap(last),
                           account |-> AccountOf(pre, Unwrap(last).client)])
                ELSE None
    /\ nonneg' = (nonneg /\ NonNegative(tx))
    /\ resolved' = IF ResolveTakesEffect(engine, tx)
                   THEN resolved \cup {engine.transactions[tx.tx]}
                   ELSE resolved
    /\ holds' =
         LET after == engine'
         IN CASE /\ tx.transaction_type = Dispute
                 /\ AccountOf(after, tx.client).held
                      # AccountOf(engine, tx.client).held
                 -> [holds EXCEPT ![tx.tx] = @ + 1]
              [] /\ tx.transaction_type \in {Resolve, Chargeback}
                 /\ is_disputed(engine.disputed, tx.tx)
                 /\ ~is_disputed(after.disputed, tx.tx)
                 -> [holds EXCEPT ![tx.tx] = 0]
              [] OTHER -> holds
    /\ steps' = steps + 1
    /\ UNCHANGED <<feed_vars, ledger_vars>>

Submit(tx) ==
    /\ steps < MaxRecords
    /\ Apply(tx)
    /\ UNCHANGED audit_vars

OfType(ty) == {tx \in Records : tx.transaction_type = ty}

SubmitDeposit == \E tx \in OfType(Deposit) : Submit(tx)
SubmitWithdrawal == \E tx \in OfType(Withdrawal) : Submit(tx)
SubmitDispute == \E tx \in OfType(Dispute) : Submit(tx)
SubmitResolve == \E tx \in OfType(Resolve) : Submit(tx)
SubmitChargeback == \E tx \in OfType(Chargeback) : Submit(tx)

Next ==
    \/ SubmitDeposit
    \/ SubmitWithdrawal
    \/ SubmitDispute
    \/ SubmitResolve
    \/ SubmitChargeback

Spec == Init /\ [][Next]_vars

\* The same calls for the records of one client, in longer runs.
SubmitClient ==
    /\ steps < MaxDeep
    /\ \E tx \in {r \in Records : r.client = 1} : Apply(tx)
    /\ UNCHANGED audit_vars

DeepNext == SubmitClient

DeepSpec == Init /\ [][DeepNext]_vars

\* The same calls with the books kept beside the engine: what the accepted
\* ledger calls add up to, and which tx ids the records have carried.
Audited(tx) ==
    /\ steps < MaxDeep
    /\ Apply(tx)
    /\ used' = IF tx.transaction_type \in {Deposit, Withdrawal}
               THEN used \cup {tx.tx}
               ELSE used
    /\ reused' = \/ reused
                 \/ /\ tx.transaction_type \in {Deposit, Withdrawal}
                    /\ tx.tx \in used
    /\ books' =
         LET c == AcceptedCall(engine, tx)
             op == Unwrap(c).op
             amount == Unwrap(c).amount
         IN IF c = None THEN books
            ELSE CASE op = "deposit"
                      -> [books EXCEPT ![tx.client].deposits = @ + amount]
                   [] op = "withdraw"
                      -> [books EXCEPT ![tx.client].withdrawals = @ + amount]
                   [] op = "chargeback"
                      -> [books EXCEPT
                            ![tx.client].chargebacks = @ + amount,
                            ![tx.client].chargeback_count = @ + 1]
                   [] OTHER -> books

\* The records of one client, in the longer runs.
AuditClient == \E tx \in {r \in Records : r.client = 1} : Audited(tx)

AuditNext == AuditClient

AuditSpec == Init /\ [][AuditNext]_vars

\* ---------------------------------------------------------------- feed
\* process_transactions_with_options: a fresh engine, File::open, the stream.
\* A file that cannot be opened ends the run with the error, nothing processed.
OpenFile ==
    /\ pc = "start"
    /\ steps = 0
    /\ \E b \in BatchSizes, opened \in BOOLEAN :
         /\ batch_size' = b
         /\ IF opened
            THEN /\ pc' = "header"
                 /\ feed_result' = feed_result
            ELSE /\ pc' = "done"
                 /\ feed_result' = Some(<<"FileReadError">>)
    /\ UNCHANGED <<engine, driver_vars, batch, line_count, items, parsed,
                   applied, skipped, errors, batch_results, ledger_vars,
                   audit_vars>>

\* lines_stream.skip(1): the first item of the stream, if any, is dropped.
SkipHeader ==
    /\ pc = "header"
    /\ pc' = "lines"
    /\ UNCHANGED <<engine, driver_vars, batch_size, batch, line_count, items,
                   parsed, applied, skipped, errors, batch_results,
                   feed_result, ledger_vars,
                   audit_vars>>

\* One iteration of `while let Some(line_result) = lines.next().await`.
ReadLine ==
    /\ pc = "lines"
    /\ items < MaxLines
    /\ items' = items + 1
    /\ \E item \in StreamItems :
         IF ~item.ok
         THEN /\ skipped' = skipped + 1
              /\ UNCHANGED <<engine, batch, line_count, parsed, applied,
                             errors, batch_results>>
         ELSE
           /\ line_count' = line_count + 1
           /\ LET t == parse_transaction(item.line)
              IN IF t = None
                 THEN /\ skipped' = skipped + 1
                      /\ UNCHANGED <<engine, batch, parsed, applied, errors,
                                     batch_results>>
                 ELSE
                   LET pushed == Append(batch, Unwrap(t))
                   IN /\ parsed' = Append(parsed, Unwrap(t))
                      /\ skipped' = skipped
                      /\ IF Len(pushed) >= batch_size
                         THEN LET r == process_transaction_batch(engine, pushed)
                              IN /\ engine' = r.engine
                                 /\ applied' = applied \o r.applied
                                 /\ errors' = errors \o r.errors
                                 /\ batch_results' =
                                        batch_results \cup {r.result}
                                 \* batch.clear()
                                 /\ batch' = <<>>
                         ELSE /\ batch' = pushed
                              /\ UNCHANGED <<engine, applied, errors,
                                             batch_results>>
    /\ UNCHANGED <<driver_vars, pc, batch_size, feed_result, ledger_vars,
                   audit_vars>>

\* Mutation: the run ends without processing the batch still being filled.
Mut_EndOfInput_no_flush ==
    /\ pc = "lines"
    /\ pc' = "done"
    /\ feed_result' = Some(Ok)
    /\ UNCHANGED <<engine, applied, batch, driver_vars, batch_size,
                   line_count, items, parsed, skipped, errors, batch_results,
                   ledger_vars,
                   audit_vars>>

\* Mutation: when the stream ends the remaining batch is processed and the
\* read is tried again instead of the function returning.
Mut_EndOfInput_retries ==
    /\ pc = "lines"
    /\ IF batch # <<>>
       THEN LET r == process_transaction_batch(engine, batch)
            IN /\ engine' = r.engine
               /\ applied' = applied \o r.applied
               /\ errors' = errors \o r.errors
               /\ batch_results' = batch_results \cup {r.result}
               /\ batch' = r.transactions
       ELSE UNCHANGED <<engine, applied, errors, batch_results, batch>>
    /\ pc' = "lines"
    /\ feed_result' = feed_result
    /\ UNCHANGED <<driver_vars, batch_size, line_count, items, parsed,
                   skipped, ledger_vars,
                   audit_vars>>

\* lines.next() returns None: the remaining batch is processed, Ok(()).
EndOfInput ==
    /\ pc = "lines"
    /\ IF batch # <<>>
       THEN LET r == process_transaction_batch(engine, batch)
            IN /\ engine' = r.engine
               /\ applied' = applied \o r.applied
               /\ errors' = errors \o r.errors
               /\ batch_results' = batch_results \cup {r.result}
               /\ batch' = r.transactions
       ELSE UNCHANGED <<engine, applied, errors, batch_results, batch>>
    /\ pc' = "done"
    /\ feed_result' = Some(Ok)
    /\ UNCHANGED <<driver_vars, batch_size, line_count, items, parsed,
                   skipped, ledger_vars,
                   audit_vars>>

FeedNext ==
    \/ OpenFile
    \/ SkipHeader
    \/ ReadLine
    \/ EndOfInput

FeedSpec == Init /\ [][FeedNext]_vars

\* The feed as it runs: the single task is never suspended for good while it
\* has a step to take (every await is on the file or on the engine's own
\* futures, which complete).
LiveFeedSpec == Init /\ [][FeedNext]_vars /\ WF_vars(FeedNext)

\* ---------------------------------------------------------------- ledger
\* The amounts a caller passes to an Account method: any Decimal.
LedgerAmounts == (-1)..MaxLedgerAmount

\* One call of a method of Account on acct, as the unit tests of models.rs
\* make them: r is what the method returns and leaves.
Call(op, amount, r) ==
    /\ calls < MaxCalls
    /\ acct' = r.account
    /\ call' = Some([op |-> op, amount |-> amount, before |-> acct,
                     ok |-> r.ok])
    /\ calls' = calls + 1
    /\ UNCHANGED <<engine, driver_vars, feed_vars, audit_vars>>

CallDeposit ==
    \E a \in LedgerAmounts : Call("deposit", a, Account_deposit(acct, a))

CallWithdraw ==
    \E a \in LedgerAmounts : Call("withdraw", a, Account_withdraw(acct, a))

CallHold ==
    \E a \in LedgerAmounts : Call("hold", a, Account_hold(acct, a))

CallRelease ==
    \E a \in LedgerAmounts : Call("release", a, Account_release(acct, a))

CallChargeback ==
    \E a \in LedgerAmounts :
        Call("chargeback", a, Account_chargeback(acct, a))

LedgerNext ==
    \/ CallDeposit
    \/ CallWithdraw
    \/ CallHold
    \/ CallRelease
    \/ CallChargeback

LedgerSpec == Init /\ [][LedgerNext]_vars

\* ---------------------------------------------------------------- claims
\* The last record handed to the engine by the direct driver.
LastTx == Unwrap(last)

\* C1: in every state reached by applying records to a fresh engine, every
\* account has total = available + held.
C1_TotalIsAvailablePlusHeld ==
    \A c \in DOMAIN engine.accounts :
        engine.accounts[c].total
            = engine.accounts[c].available + engine.accounts[c].held

\* An account with funds in both buckets after a record was applied.
C1_Witness ==
    /\ last # None
    /\ \E c \in DOMAIN engine.accounts :
         /\ engine.accounts[c].held > 0
         /\ engine.accounts[c].available > 0

\* The ledger operation the last record asked for would have driven
\* available or held below zero.
WouldGoNegative ==
    /\ last # None
    /\ ~AccountOf(pre, LastTx.client).locked
    /\ \/ /\ LastTx.transaction_type = Withdrawal
          /\ LastTx.amount # None
          /\ Unwrap(LastTx.amount) > AccountOf(pre, LastTx.client).available
       \/ /\ LastTx.transaction_type = Dispute
          /\ DisputeChecksPass(pre, LastTx)
          /\ EntryAmount(pre, LastTx) > AccountOf(pre, LastTx.client).available
       \/ /\ LastTx.transaction_type \in {Resolve, Chargeback}
          /\ SettleChecksPass(pre, LastTx)
          /\ EntryAmount(pre, LastTx) > AccountOf(pre, LastTx.client).held

\* C2: while every Deposit/Withdrawal amount was non-negative, available, held
\* and total of every account are >= 0, and a record whose operation would
\* drive a field negative leaves its account as it was (rejected, not clamped).
C2_NeverNegative ==
    nonneg =>
      /\ \A c \in DOMAIN engine.accounts :
           /\ engine.accounts[c].available >= 0
           /\ engine.accounts[c].held >= 0
           /\ engine.accounts[c].total >= 0
      /\ WouldGoNegative =>
           AccountOf(engine, LastTx.client) = AccountOf(pre, LastTx.client)

\* A withdrawal was rejected on an account whose funds are all held.
C2_Witness ==
    /\ nonneg
    /\ WouldGoNegative
    /\ LastTx.transaction_type = Withdrawal
    /\ AccountOf(pre, LastTx.client).held > 0
    /\ AccountOf(engine, LastTx.client).available = 0

\* C3: once an account's locked flag is true it is true in every later state.
C3_LockedIsOneWay ==
    [][\A c \in DOMAIN engine.accounts :
         engine.accounts[c].locked =>
           /\ c \in DOMAIN engine'.accounts
           /\ engine'.accounts[c].locked]_vars

\* A record was handled for a client whose account was already locked.
C3_Witness ==
    /\ last # None
    /\ AccountOf(pre, LastTx.client).locked
    /\ AccountOf(engine, LastTx.client).locked

\* C4: a Deposit, Withdrawal, Resolve or Chargeback for a client whose account
\* is locked changes nothing in the engine (accounts, journal, disputed flags)
\* and process_transaction returns Ok.
C4_LockedGateDiscards ==
    (/\ last # None
     /\ LastTx.transaction_type # Dispute
     /\ AccountOf(pre, LastTx.client).locked)
    => /\ engine = pre
       /\ result = Ok

\* A Deposit carrying an amount arrived for a locked account.
C4_Witness ==
    /\ last # None
    /\ LastTx.transaction_type = Deposit
    /\ LastTx.amount # None
    /\ AccountOf(pre, LastTx.client).locked

\* C7: a Dispute that passes all checks on an unlocked account with
\* available >= entry.amount moves exactly entry.amount from available to
\* held, leaves total and locked unchanged, and leaves the flag true.
C7_DisputeHolds ==
    (last # None /\ DisputeTakesEffect(pre, LastTx)) =>
      LET before == AccountOf(pre, LastTx.client)
          after == AccountOf(engine, LastTx.client)
          amount == EntryAmount(pre, LastTx)
      IN /\ after.available = before.available - amount
         /\ after.held = before.held + amount
         /\ after.total = before.total
         /\ after.locked = before.locked
         /\ is_disputed(engine.disputed, LastTx.tx)
         /\ result = Ok

\* A dispute of a deposit of a positive amount took effect.
C7_Witness ==
    /\ last # None
    /\ DisputeTakesEffect(pre, LastTx)
    /\ EntryAmount(pre, LastTx) > 0

\* The last record is the Resolve of the dispute that took effect just before.
ResolveRightAfterDispute ==
    /\ prior # None
    /\ last # None
    /\ LastTx.transaction_type = Resolve
    /\ LastTx.client = Unwrap(prior).tx.client
    /\ LastTx.tx = Unwrap(prior).tx.tx

\* C8: a Dispute of deposit t that takes effect, immediately followed by a
\* Resolve of t for the same client, leaves the account's available, held,
\* total and locked as they were before the Dispute, and t not disputed.
C8_DisputeResolveRoundTrip ==
    ResolveRightAfterDispute =>
      /\ AccountOf(engine, LastTx.client) = Unwrap(prior).account
      /\ ~is_disputed(engine.disputed, LastTx.tx)

\* The last record is a Chargeback that passed its checks on an unlocked
\* account holding at least the entry's amount.
ChargebackApplies ==
    /\ last # None
    /\ LastTx.transaction_type = Chargeback
    /\ SettleChecksPass(pre, LastTx)
    /\ ~AccountOf(pre, LastTx.client).locked
    /\ AccountOf(pre, LastTx.client).held >= EntryAmount(pre, LastTx)

\* C9: a successful Chargeback of disputed deposit t with amount a decreases
\* held and total by a, leaves available unchanged, locks the account and
\* clears t's flag; after Deposit(a), Dispute on a fresh account (available 0,
\* held a, total a) it ends with available = held = total = 0, locked.
C9_ChargebackRemovesAndLocks ==
    ChargebackApplies =>
      LET before == AccountOf(pre, LastTx.client)
          after == AccountOf(engine, LastTx.client)
          amount == EntryAmount(pre, LastTx)
      IN /\ after.held = before.held - amount
         /\ after.total = before.total - amount
         /\ after.available = before.available
         /\ after.locked
         /\ ~is_disputed(engine.disputed, LastTx.tx)
         /\ (before.available = 0 /\ before.held = amount
               /\ before.total = amount)
            => (after.available = 0 /\ after.held = 0 /\ after.total = 0)

\* Deposit(a), Dispute, Chargeback on a fresh account with a > 0.
C9_Witness ==
    /\ ChargebackApplies
    /\ EntryAmount(pre, LastTx) > 0
    /\ AccountOf(pre, LastTx.client).available = 0
    /\ AccountOf(pre, LastTx.client).held = EntryAmount(pre, LastTx)
    /\ AccountOf(pre, LastTx.client).total = EntryAmount(pre, LastTx)
    /\ steps = 3

\* The last record is a Withdrawal of more than the client's available funds.
WithdrawalExceedsAvailable ==
    /\ last # None
    /\ LastTx.transaction_type = Withdrawal
    /\ LastTx.amount # None
    /\ Unwrap(LastTx.amount) > AccountOf(pre, LastTx.client).available

\* C10: a Withdrawal whose amount exceeds the client's available funds leaves
\* available, held, total and locked unchanged, writes nothing to the journal,
\* and process_transaction returns Ok.
C10_InsufficientFundsIsNoOp ==
    WithdrawalExceedsAvailable =>
      /\ AccountOf(engine, LastTx.client) = AccountOf(pre, LastTx.client)
      /\ engine.transactions = pre.transactions
      /\ result = Ok

\* An unlocked account that had received funds was asked for more than it has
\* available.
C10_Witness ==
    /\ WithdrawalExceedsAvailable
    /\ ~AccountOf(pre, LastTx.client).locked
    /\ AccountOf(pre, LastTx.client).total > 0
    /\ Unwrap(LastTx.amount) > 0
\* The engine reached from a fresh one by calling process_transaction on the
\* records of txs one at a time, in order.
RECURSIVE OneAtATime(_, _)
OneAtATime(self, txs) ==
    IF txs = <<>> THEN self
    ELSE OneAtATime(process_transaction(self, Head(txs)).engine, Tail(txs))

FeedDone ==
    pc = "done" /\ feed_result = Some(Ok)

\* C5: whatever the batch size, a finished feed leaves the set of accounts
\* (available, held, total, locked of each) that applying the parsed records
\* one at a time to a fresh engine leaves; that set does not depend on the
\* batch size, so runs with any two batch sizes end in the same accounts.
C5_ChunkSizeHasNoEffect ==
    FeedDone =>
      get_all_accounts(engine.accounts)
        = get_all_accounts(OneAtATime(PaymentEngine_new, parsed).accounts)

\* A finished run of full batches and a shorter last one that moved funds.
C5_Witness ==
    /\ FeedDone
    /\ batch_size >= 2
    /\ Len(parsed) > batch_size
    /\ Len(parsed) % batch_size # 0
    /\ \E a \in get_all_accounts(engine.accounts) : a.locked

\* C6: the records handed to the engine, followed by those waiting in the
\* batch, are the successfully parsed records in input order, each once; when
\* the feed has finished the applied records are exactly the parsed ones.
C6_AppliedInInputOrder ==
    /\ pc \in {"lines", "done"} => applied \o batch = parsed
    /\ FeedDone => applied = parsed

\* A finished run that applied a full batch and a shorter last one, with
\* lines that did not parse in between.
C6_Witness ==
    /\ FeedDone
    /\ batch_size = 2
    /\ Len(applied) = 3
    /\ line_count > Len(parsed)
    /\ applied[1] # applied[2]

\* The last record is a Dispute whose tx_id has no journal entry, or whose
\* journal entry belongs to another client.
DisputeUnknownOrMismatched ==
    /\ last # None
    /\ LastTx.transaction_type = Dispute
    /\ \/ LastTx.tx \notin DOMAIN pre.transactions
       \/ pre.transactions[LastTx.tx].client # LastTx.client

\* C11: a Dispute whose tx_id has no journal entry, or whose client differs
\* from the journal entry's client, leaves every account's balances and every
\* disputed flag unchanged.
C11_DisputeUnknownOrMismatchedIsNoOp ==
    DisputeUnknownOrMismatched =>
        /\ \A c \in Clients : AccountOf(engine, c) = AccountOf(pre, c)
        /\ \A t \in TxIds :
             is_disputed(engine.disputed, t) = is_disputed(pre.disputed, t)

\* A client with funds disputed another client's undisputed deposit.
C11_Witness ==
    /\ DisputeUnknownOrMismatched
    /\ LastTx.tx \in DOMAIN pre.transactions
    /\ pre.transactions[LastTx.tx].transaction_type = Deposit
    /\ ~is_disputed(pre.disputed, LastTx.tx)
    /\ EntryAmount(pre, LastTx) > 0
    /\ ~AccountOf(pre, LastTx.client).locked
    /\ AccountOf(pre, LastTx.client).available >= EntryAmount(pre, LastTx)

\* The last record is a Dispute by the owning client of a journal entry whose
\* earlier dispute a Resolve has ended.
DisputeAfterResolve ==
    /\ last # None
    /\ LastTx.transaction_type = Dispute
    /\ LastTx.tx \in DOMAIN pre.transactions
    /\ pre.transactions[LastTx.tx] \in resolved
    /\ pre.transactions[LastTx.tx].client = LastTx.client

\* C12 as stated: a Dispute that references a transaction whose earlier
\* dispute has already been resolved leaves the account's balances unchanged.
C12_DisputeAfterResolveIsNoOp ==
    DisputeAfterResolve =>
        AccountOf(engine, LastTx.client) = AccountOf(pre, LastTx.client)

\* C12 (amended): a Dispute that references a transaction whose earlier
\* dispute has already been resolved is handled like a first dispute: when the
\* entry is a Deposit not under dispute again, the account is not locked and
\* available >= amount, the amount moves from available to held again and the
\* entry is marked disputed; otherwise the account's balances are unchanged.
C12_DisputeAfterResolveHoldsAgain ==
    DisputeAfterResolve =>
        IF DisputeTakesEffect(pre, LastTx)
        THEN /\ AccountOf(engine, LastTx.client) =
                  [AccountOf(pre, LastTx.client) EXCEPT
                     !.available = @ - EntryAmount(pre, LastTx),
                     !.held = @ + EntryAmount(pre, LastTx)]
             /\ is_disputed(engine.disputed, LastTx.tx)
        ELSE AccountOf(engine, LastTx.client) = AccountOf(pre, LastTx.client)

\* A resolved deposit of a positive amount was disputed again and held again.
C12_Witness ==
    /\ DisputeAfterResolve
    /\ DisputeTakesEffect(pre, LastTx)
    /\ EntryAmount(pre, LastTx) > 0
    /\ AccountOf(engine, LastTx.client).held > 0

\* The last record is a Resolve or Chargeback whose tx_id is unknown, belongs
\* to another client, or is not under dispute.
SettleChecksFail ==
    /\ last # None
    /\ LastTx.transaction_type \in {Resolve, Chargeback}
    /\ ~SettleChecksPass(pre, LastTx)

\* C13: a Resolve or Chargeback whose tx_id is unknown, belongs to another
\* client, or is not currently disputed leaves all balances, lock flags and
\* disputed flags unchanged; a Chargeback on a never-disputed deposit does not
\* lock the account.
C13_SettleWithoutDisputeIsNoOp ==
    SettleChecksFail =>
        /\ \A c \in Clients : AccountOf(engine, c) = AccountOf(pre, c)
        /\ \A t \in TxIds :
             is_disputed(engine.disputed, t) = is_disputed(pre.disputed, t)
        /\ ~AccountOf(pre, LastTx.client).locked =>
               ~AccountOf(engine, LastTx.client).locked

\* A Chargeback named the client's own deposit, never disputed, while the
\* account was unlocked.
C13_Witness ==
    /\ SettleChecksFail
    /\ LastTx.transaction_type = Chargeback
    /\ LastTx.tx \in DOMAIN pre.transactions
    /\ pre.transactions[LastTx.tx].transaction_type = Deposit
    /\ pre.transactions[LastTx.tx].client = LastTx.client
    /\ LastTx.tx \notin DOMAIN pre.disputed
    /\ ~AccountOf(engine, LastTx.client).locked
    /\ AccountOf(engine, LastTx.client).available > 0

\* C14: processing a record of client A leaves available, held, total and
\* locked of every other client's account unchanged (and creates no account
\* for another client), also when the record names a tx_id journaled for
\* another client.
C14_MultiClientIsolation ==
    last # None =>
        \A c \in Clients \ {LastTx.client} :
            /\ AccountOf(engine, c) = AccountOf(pre, c)
            /\ (c \in DOMAIN engine.accounts) = (c \in DOMAIN pre.accounts)

\* A dispute-lifecycle record of one client named a deposit journaled for
\* another client whose account holds funds.
C14_Witness ==
    /\ last # None
    /\ LastTx.transaction_type \in {Dispute, Resolve, Chargeback}
    /\ LastTx.tx \in DOMAIN pre.transactions
    /\ pre.transactions[LastTx.tx].client # LastTx.client
    /\ pre.transactions[LastTx.tx].transaction_type = Deposit
    /\ EntryAmount(pre, LastTx) > 0
    /\ AccountOf(pre, pre.transactions[LastTx.tx].client).total > 0
    /\ LastTx.client \in DOMAIN pre.accounts

\* The last record was rejected by validation: discarded by the lock gate, a
\* Withdrawal exceeding available, a Dispute naming an unknown tx, another
\* client's tx, a non-deposit or an already disputed tx, or a Resolve or
\* Chargeback naming an unknown tx, another client's tx or a tx not disputed.
RejectedByValidation ==
    /\ last # None
    /\ \/ /\ AccountOf(pre, LastTx.client).locked
          /\ LastTx.transaction_type # Dispute
       \/ WithdrawalExceedsAvailable
       \/ /\ LastTx.transaction_type = Dispute
          /\ ~DisputeChecksPass(pre, LastTx)
       \/ SettleChecksFail

\* What a caller can observe of the journal and its overlay is the same in
\* the engine before and after the last record.
JournalUnchanged ==
    /\ engine.transactions = pre.transactions
    /\ \A t \in TxIds :
         is_disputed(engine.disputed, t) = is_disputed(pre.disputed, t)

\* C15 as stated: a record rejected by validation causes no state change at
\* all: the set of accounts, every account's fields, the journal and the
\* disputed flags are the same after the record as before it.
C15_RejectionChangesNothing ==
    RejectedByValidation =>
        /\ engine.accounts = pre.accounts
        /\ JournalUnchanged

\* C15 (amended): a record rejected by validation changes no existing
\* account's fields, nor the journal, nor the disputed flags; the only change
\* is that an account with zero balances, not locked, now exists for the
\* record's client when none existed before.
C15_RejectionOnlyCreatesAccount ==
    RejectedByValidation =>
        /\ DOMAIN engine.accounts = DOMAIN pre.accounts \cup {LastTx.client}
        /\ \A c \in DOMAIN pre.accounts :
             engine.accounts[c] = pre.accounts[c]
        /\ LastTx.client \notin DOMAIN pre.accounts =>
               engine.accounts[LastTx.client] = Account_new(LastTx.client)
        /\ JournalUnchanged

\* A rejected record was the first one of its client and left a zero account
\* behind, next to another client's funded account.
C15_Witness ==
    /\ RejectedByValidation
    /\ LastTx.client \notin DOMAIN pre.accounts
    /\ LastTx.client \in DOMAIN engine.accounts
    /\ \E c \in DOMAIN pre.accounts : pre.accounts[c].total > 0

\* C16: a record that fails to parse or to be read, or for which
\* process_transaction returns an error, is skipped and never aborts the run:
\* every call of process_transaction_batch returns Ok, and a run that met such
\* records ends with Ok, having applied every item of the stream that was
\* not skipped, in order, with the effect of applying them one at a time.
C16_FailuresAreIsolated ==
    /\ batch_results \subseteq {Ok}
    /\ pc = "done" /\ (skipped > 0 \/ errors # <<>>) =>
         /\ feed_result = Some(Ok)
         /\ applied = parsed
         /\ Len(applied) + skipped = items
         /\ engine = OneAtATime(PaymentEngine_new, parsed)

\* A finished run with batches of two: the first record made the engine
\* return MissingAmount, the next one of the same batch and one of the next
\* batch were applied and moved funds, and one line was skipped.
C16_Witness ==
    /\ pc = "done"
    /\ batch_size = 2
    /\ skipped > 0
    /\ Len(applied) = 3
    /\ applied[1].amount = None
    /\ applied[1].transaction_type = Deposit
    /\ errors = <<MissingAmount(applied[1].tx)>>
    /\ applied[2].transaction_type = Deposit
    /\ applied[3].transaction_type = Deposit
    /\ \A c \in Clients : AccountOf(engine, c).total > 0

\* The last direct call on the account of the ledger driver.
LastCall == Unwrap(call)

\* The account a successful call of op with amount a leaves, given the
\* account b before it: the two field changes the operation is specified to
\* make (for chargeback, with the lock).
BothChanges(op, b, a) ==
    CASE op = "deposit" -> [b EXCEPT !.available = @ + a, !.total = @ + a]
      [] op = "withdraw" -> [b EXCEPT !.available = @ - a, !.total = @ - a]
      [] op = "hold" -> [b EXCEPT !.available = @ - a, !.held = @ + a]
      [] op = "release" -> [b EXCEPT !.held = @ - a, !.available = @ + a]
      [] op = "chargeback" -> [b EXCEPT !.held = @ - a, !.total = @ - a,
                                        !.locked = TRUE]

\* C17: each of the five ledger operations is all-or-nothing: it returns true
\* having applied both of its field changes, or returns false having changed
\* no field of the account.
C17_LedgerOpsAllOrNothing ==
    call # None =>
        IF LastCall.ok
        THEN acct = BothChanges(LastCall.op, LastCall.before, LastCall.amount)
        ELSE acct = LastCall.before

\* A release of more than is held was refused on an account with funds in
\* both buckets.
C17_Witness ==
    /\ call # None
    /\ LastCall.op = "release"
    /\ ~LastCall.ok
    /\ LastCall.before.held > 0
    /\ LastCall.before.available > 0
    /\ LastCall.amount > LastCall.before.held

\* The condition under which the specification lets an operation fail.
SpecifiedToFail(op, b, a) ==
    CASE op = "deposit" -> b.locked
      [] op \in {"withdraw", "hold"} -> b.locked \/ b.available < a
      [] op \in {"release", "chargeback"} -> b.locked \/ b.held < a

\* The fields an operation is specified to leave alone.
FieldsKept(op) ==
    CASE op \in {"deposit", "withdraw"} -> {"client", "held", "locked"}
      [] op \in {"hold", "release"} -> {"client", "total", "locked"}
      [] op = "chargeback" -> {"client", "available"}

\* C18: for every account state and non-negative amount, an operation fails
\* exactly when it is specified to (deposit iff locked; withdraw and hold iff
\* locked or available < amount; release and chargeback iff locked or
\* held < amount), and a successful one changes only its own fields.
C18_LedgerOpsMatchReference ==
    call # None /\ LastCall.amount >= 0 =>
        /\ ~LastCall.ok =
              SpecifiedToFail(LastCall.op, LastCall.before, LastCall.amount)
        /\ LastCall.ok =>
              \A f \in FieldsKept(LastCall.op) : acct[f] = LastCall.before[f]

\* A withdrawal of exactly the available funds, some of the total being
\* held, succeeded.
C18_Witness ==
    /\ call # None
    /\ LastCall.op = "withdraw"
    /\ LastCall.ok
    /\ LastCall.amount > 0
    /\ LastCall.amount = LastCall.before.available
    /\ LastCall.before.held > 0

\* The last record is a Deposit or Withdrawal that carries no amount.
NoAmount ==
    /\ last # None
    /\ LastTx.transaction_type \in {Deposit, Withdrawal}
    /\ LastTx.amount = None

\* The last record changed no balance and nothing in the journal.
BalancesAndJournalUnchanged ==
    /\ \A c \in Clients : AccountOf(engine, c) = AccountOf(pre, c)
    /\ engine.transactions = pre.transactions

\* A batch that starts with the last record, in the engine as it was before
\* it, goes on to its next record whatever that is: the batch returns Ok,
\* has drained both records, logged the errors of both, and leaves the engine
\* that handing the next record to the engine now leaves.
BatchGoesOn ==
    \A next \in Records :
        LET alone == process_transaction(engine, next)
            logged(res) == IF res = Ok THEN <<>> ELSE <<res>>
        IN process_transaction_batch(pre, <<LastTx, next>>)
             = [engine |-> alone.engine,
                transactions |-> <<>>,
                applied |-> <<LastTx, next>>,
                errors |-> logged(result) \o logged(alone.result),
                result |-> Ok]

\* C19 as stated: a Deposit or Withdrawal with no amount makes
\* process_transaction return MissingAmount for its tx_id, changes no balance,
\* records nothing in the journal, and does not stop the remaining records of
\* its batch from being processed.
C19_NoAmountIsMissingAmount ==
    NoAmount =>
        /\ result = MissingAmount(LastTx.tx)
        /\ BalancesAndJournalUnchanged
        /\ BatchGoesOn

\* C19 (amended): a Deposit or Withdrawal with no amount makes
\* process_transaction return MissingAmount for its tx_id when its client's
\* account is not locked, and Ok when it is locked (the lock gate discards it
\* first); either way it changes no balance, records nothing in the journal,
\* and does not stop the remaining records of its batch from being processed.
C19_NoAmountIsMissingAmountUnlessLocked ==
    NoAmount =>
        /\ result = IF AccountOf(pre, LastTx.client).locked
                    THEN Ok
                    ELSE MissingAmount(LastTx.tx)
        /\ BalancesAndJournalUnchanged
        /\ BatchGoesOn

\* A Deposit with no amount reached an unlocked account that has funds, under
\* a tx_id not journaled yet, and MissingAmount came back.
C19_Witness ==
    /\ NoAmount
    /\ LastTx.transaction_type = Deposit
    /\ ~AccountOf(pre, LastTx.client).locked
    /\ AccountOf(pre, LastTx.client).total > 0
    /\ LastTx.tx \notin DOMAIN pre.transactions
    /\ result = MissingAmount(LastTx.tx)

\* The last record is a Dispute whose tx_id has a journal entry of kind
\* Withdrawal.
DisputeOnWithdrawal ==
    /\ last # None
    /\ LastTx.transaction_type = Dispute
    /\ LastTx.tx \in DOMAIN pre.transactions
    /\ pre.transactions[LastTx.tx].transaction_type = Withdrawal

\* C20: a Dispute whose tx_id refers to a journal entry of kind Withdrawal is
\* always rejected: it holds no funds (no account changes) and it does not set
\* the disputed flag: a flag that is false stays false, and no flag changes.
C20_WithdrawalIsNotDisputable ==
    DisputeOnWithdrawal =>
        /\ result = Ok
        /\ \A c \in Clients : AccountOf(engine, c) = AccountOf(pre, c)
        /\ ~is_disputed(pre.disputed, LastTx.tx) =>
               ~is_disputed(engine.disputed, LastTx.tx)
        /\ \A t \in TxIds :
             is_disputed(engine.disputed, t) = is_disputed(pre.disputed, t)

\* The client's own withdrawal of a positive amount, not flagged, was
\* disputed while the unlocked account had at least that amount available.
C20_Witness ==
    /\ DisputeOnWithdrawal
    /\ pre.transactions[LastTx.tx].client = LastTx.client
    /\ ~is_disputed(pre.disputed, LastTx.tx)
    /\ EntryAmount(pre, LastTx) > 0
    /\ ~AccountOf(pre, LastTx.client).locked
    /\ AccountOf(pre, LastTx.client).available >= EntryAmount(pre, LastTx)

\* The calls of Account mutators, with the amounts passed, that the engine
\* makes while the records of txs are applied in order to the engine self.
RECURSIVE LedgerCallsOf(_, _)
LedgerCallsOf(self, txs) ==
    IF txs = <<>> THEN {}
    ELSE LET c == LedgerCall(self, Head(txs))
         IN (IF c = None THEN {} ELSE {Unwrap(c)})
            \cup LedgerCallsOf(process_transaction(self, Head(txs)).engine,
                               Tail(txs))

\* C21: for any sequence of records the feed parses and delivers, the engine
\* never passes a negative amount to a ledger operation (deposit, withdraw,
\* hold, release, chargeback).
C21_NoNegativeAmountReachesLedger ==
    \A c \in LedgerCallsOf(PaymentEngine_new, applied) : c.amount >= 0

\* The last record is a Dispute that passed the lookup, client, kind and
\* not-already-disputed checks and whose hold failed.
HoldFails ==
    /\ last # None
    /\ LastTx.transaction_type = Dispute
    /\ DisputeChecksPass(pre, LastTx)
    /\ \/ AccountOf(pre, LastTx.client).locked
       \/ AccountOf(pre, LastTx.client).available < EntryAmount(pre, LastTx)

\* C22: when a Dispute passes its four checks but the hold fails (available <
\* entry.amount, or the account is locked), then after the record the
\* transaction's disputed flag is false and available, held, total and locked
\* are unchanged.
C22_DisputeRollsBack ==
    HoldFails =>
        /\ ~is_disputed(engine.disputed, LastTx.tx)
        /\ AccountOf(engine, LastTx.client) = AccountOf(pre, LastTx.client)

\* A deposit was disputed after a withdrawal had taken the funds it needs:
\* the flag was set, the hold failed, the flag was reset.
C22_Witness ==
    /\ HoldFails
    /\ nonneg
    /\ ~AccountOf(pre, LastTx.client).locked
    /\ LastTx.tx \in DOMAIN engine.disputed
    /\ LastTx.tx \notin DOMAIN pre.disputed
    /\ AccountOf(pre, LastTx.client).available >= 0

\* The last record is a Resolve or Chargeback that reached its handler and
\* passed its checks, and held is less than the entry's amount.
SettleFails ==
    /\ last # None
    /\ LastTx.transaction_type \in {Resolve, Chargeback}
    /\ ~AccountOf(pre, LastTx.client).locked
    /\ SettleChecksPass(pre, LastTx)
    /\ AccountOf(pre, LastTx.client).held < EntryAmount(pre, LastTx)

\* C23: when a Resolve or Chargeback passes its checks but the ledger release
\* or chargeback fails (held < entry.amount), then after the record the
\* transaction's disputed flag is still true, the balances are unchanged and
\* the account is not locked by that record.
C23_FailedSettleKeepsDispute ==
    SettleFails =>
        /\ is_disputed(engine.disputed, LastTx.tx)
        /\ AccountOf(engine, LastTx.client) = AccountOf(pre, LastTx.client)
        /\ ~AccountOf(engine, LastTx.client).locked

\* With no negative amount in the run, a disputed entry was replaced by a
\* larger record under the same tx_id and then settled: held did not cover it.
C23_Witness ==
    /\ SettleFails
    /\ nonneg
    /\ AccountOf(pre, LastTx.client).held >= 0
    /\ AccountOf(engine, LastTx.client).available > 0

\* The last record is a Dispute naming a tx_id whose disputed flag was true.
DisputeOnDisputed ==
    /\ last # None
    /\ LastTx.transaction_type = Dispute
    /\ is_disputed(pre.disputed, LastTx.tx)

\* C24: a Dispute on a transaction whose disputed flag is already true is
\* dropped without touching the ledger (no account changes, the flag stays
\* true), so between a Dispute of t that took its hold and the next Resolve
\* or Chargeback of t that clears the flag, funds are moved into held for t
\* once, however many Dispute records for t arrive.
C24_DisputedIsHeldOnce ==
    /\ DisputeOnDisputed =>
          /\ \A c \in Clients : AccountOf(engine, c) = AccountOf(pre, c)
          /\ is_disputed(engine.disputed, LastTx.tx)
    /\ \A t \in TxIds : holds[t] <= 1

\* A second Dispute arrived for a deposit of a positive amount under dispute
\* while the unlocked account had that amount available once more.
C24_Witness ==
    /\ DisputeOnDisputed
    /\ holds[LastTx.tx] = 1
    /\ LastTx.tx \in DOMAIN pre.transactions
    /\ pre.transactions[LastTx.tx].client = LastTx.client
    /\ pre.transactions[LastTx.tx].transaction_type = Deposit
    /\ EntryAmount(pre, LastTx) > 0
    /\ ~AccountOf(pre, LastTx.client).locked
    /\ AccountOf(pre, LastTx.client).available >= EntryAmount(pre, LastTx)

\* The engine holds exactly one accepted record: a Deposit of a positive
\* amount on a fresh account.
AfterFirstDeposit ==
    /\ steps = 1
    /\ LastTx.transaction_type = Deposit
    /\ LastTx.amount # None
    /\ Unwrap(LastTx.amount) > 0

\* The two orders of a Withdrawal of w under tx id t2 and a Dispute of the
\* deposit, applied to the engine e that holds the deposit d.
WithdrawalThenDispute(e, d, t2, w) ==
    OneAtATime(e, << Transaction(Withdrawal, d.client, t2, Some(w)),
                     Transaction(Dispute, d.client, d.tx, None) >>)

DisputeThenWithdrawal(e, d, t2, w) ==
    OneAtATime(e, << Transaction(Dispute, d.client, d.tx, None),
                     Transaction(Withdrawal, d.client, t2, Some(w)) >>)

\* C25: for a deposit t of amount a and a withdrawal of w with 0 < w <= a on
\* a fresh account, Deposit, Withdrawal, Dispute(t) ends with the withdrawal
\* applied and nothing held (t not disputed), Deposit, Dispute(t), Withdrawal
\* ends with a held, the withdrawal rejected and t disputed; the two final
\* states differ.
C25_OrderDependent ==
    AfterFirstDeposit =>
        \A t2 \in TxIds \ {LastTx.tx}, w \in 1..Unwrap(LastTx.amount) :
            LET a == Unwrap(LastTx.amount)
                c == LastTx.client
                wd == WithdrawalThenDispute(engine, LastTx, t2, w)
                dw == DisputeThenWithdrawal(engine, LastTx, t2, w)
            IN /\ wd.accounts[c] = [client |-> c, available |-> a - w,
                                    held |-> 0, total |-> a - w,
                                    locked |-> FALSE]
               /\ t2 \in DOMAIN wd.transactions
               /\ ~is_disputed(wd.disputed, LastTx.tx)
               /\ dw.accounts[c] = [client |-> c, available |-> 0,
                                    held |-> a, total |-> a,
                                    locked |-> FALSE]
               /\ t2 \notin DOMAIN dw.transactions
               /\ is_disputed(dw.disputed, LastTx.tx)
               /\ wd # dw

\* The run Deposit, Withdrawal, Dispute of the deposit was made on a fresh
\* engine and ended with the hold refused.
C25_Witness ==
    /\ steps = 3
    /\ HoldFails
    /\ Unwrap(pre.transactions[LastTx.tx].amount) > 0
    /\ \E t2 \in DOMAIN pre.transactions :
         /\ pre.transactions[t2].transaction_type = Withdrawal
         /\ pre.transactions[t2].client = LastTx.client
         /\ Unwrap(pre.transactions[t2].amount) > 0
         /\ engine = WithdrawalThenDispute(
                         OneAtATime(PaymentEngine_new,
                                    <<pre.transactions[LastTx.tx]>>),
                         pre.transactions[LastTx.tx], t2,
                         Unwrap(pre.transactions[t2].amount))

\* The last record is a Deposit or Withdrawal with an amount, under a tx_id
\* that was journaled already, on an unlocked account that has the funds the
\* record needs.
DuplicateAccepted ==
    /\ last # None
    /\ LastTx.transaction_type \in {Deposit, Withdrawal}
    /\ LastTx.amount # None
    /\ LastTx.tx \in DOMAIN pre.transactions
    /\ ~AccountOf(pre, LastTx.client).locked
    /\ \/ LastTx.transaction_type = Deposit
       \/ AccountOf(pre, LastTx.client).available >= Unwrap(LastTx.amount)

\* The ledger call a Dispute, Resolve or Chargeback record r for the tx_id of
\* the record d must lead to in engine e when it is checked against the
\* client, kind and amount of d.
CallAgainst(e, d, r) ==
    IF AccountOf(e, r.client).locked /\ r.transaction_type # Dispute
    THEN None
    ELSE IF r.client # d.client THEN None
    ELSE IF r.transaction_type = Dispute
    THEN IF d.transaction_type = Deposit /\ ~is_disputed(e.disputed, d.tx)
         THEN Some([op |-> "hold", amount |-> Unwrap(d.amount)])
         ELSE None
    ELSE IF ~is_disputed(e.disputed, d.tx) THEN None
    ELSE Some([op |-> IF r.transaction_type = Resolve
                      THEN "release" ELSE "chargeback",
               amount |-> Unwrap(d.amount)])

\* The account a ledger call (None: no call) leaves of the account b.
AfterCall(b, c) ==
    IF c = None THEN b
    ELSE CASE Unwrap(c).op = "hold" ->
                Account_hold(b, Unwrap(c).amount).account
           [] Unwrap(c).op = "release" ->
                Account_release(b, Unwrap(c).amount).account
           [] Unwrap(c).op = "chargeback" ->
                Account_chargeback(b, Unwrap(c).amount).account

\* C26: a second Deposit or Withdrawal under an already-journaled tx_id is not
\* rejected, its funds are applied, and it replaces the journal record for
\* that tx_id, so a later Dispute, Resolve or Chargeback for that tx_id is
\* checked against and uses the client, kind and amount of the latest record.
C26_DuplicateReplacesEntry ==
    DuplicateAccepted =>
        LET a == Unwrap(LastTx.amount)
            before == AccountOf(pre, LastTx.client)
        IN /\ result = Ok
           /\ AccountOf(engine, LastTx.client) =
                 IF LastTx.transaction_type = Deposit
                 THEN [before EXCEPT !.available = @ + a, !.total = @ + a]
                 ELSE [before EXCEPT !.available = @ - a, !.total = @ - a]
           /\ engine.transactions[LastTx.tx] = LastTx
           /\ \A r \in OfType(Dispute) \cup OfType(Resolve)
                          \cup OfType(Chargeback) :
                 r.tx = LastTx.tx =>
                    /\ LedgerCall(engine, r) = CallAgainst(engine, LastTx, r)
                    /\ AccountOf(process_transaction(engine, r).engine,
                                 r.client)
                         = AfterCall(AccountOf(engine, r.client),
                                     CallAgainst(engine, LastTx, r))

\* A deposit replaced a journal record of another client, kind or amount and
\* moved funds.
C26_Witness ==
    /\ DuplicateAccepted
    /\ LastTx.transaction_type = Deposit
    /\ Unwrap(LastTx.amount) > 0
    /\ pre.transactions[LastTx.tx].client # LastTx.client
    /\ pre.transactions[LastTx.tx].amount # LastTx.amount
    /\ engine.transactions[LastTx.tx] = LastTx

\* The last record is a Deposit or Withdrawal that was accepted and recorded
\* in the journal.
AcceptedAndRecorded ==
    /\ last # None
    /\ LastTx.transaction_type \in {Deposit, Withdrawal}
    /\ LastTx.amount # None
    /\ ~AccountOf(pre, LastTx.client).locked
    /\ \/ LastTx.transaction_type = Deposit
       \/ AccountOf(pre, LastTx.client).available >= Unwrap(LastTx.amount)

\* C27: immediately after any Deposit or Withdrawal is accepted and recorded
\* under tx_id t (including when it overwrites an earlier entry for t),
\* is_disputed(t) is false.
C27_EntryStartsUndisputed ==
    AcceptedAndRecorded =>
        /\ engine.transactions[LastTx.tx] = LastTx
        /\ ~is_disputed(engine.disputed, LastTx.tx)

\* C28: in every reachable state, every tx_id whose disputed flag is true has
\* a journal entry of kind Deposit.
C28_OnlyDepositsAreDisputed ==
    \A t \in TxIds :
        is_disputed(engine.disputed, t) =>
            /\ t \in DOMAIN engine.transactions
            /\ engine.transactions[t].transaction_type = Deposit

\* C29: a Deposit or Withdrawal is written to the journal only when its
\* ledger operation succeeded; a Withdrawal rejected for insufficient funds,
\* a Deposit or Withdrawal discarded by the lock gate, one lacking an amount,
\* and every other record leave the journal as it was.
C29_JournalHoldsAcceptedOnly ==
    last # None =>
        IF engine.transactions # pre.transactions
        THEN /\ LastTx.transaction_type \in {Deposit, Withdrawal}
             /\ LastTx.amount # None
             /\ engine.transactions
                  = add_transaction(pre.transactions, LastTx)
             /\ LET r == IF LastTx.transaction_type = Deposit
                         THEN Account_deposit(AccountOf(pre, LastTx.client),
                                              Unwrap(LastTx.amount))
                         ELSE Account_withdraw(AccountOf(pre, LastTx.client),
                                               Unwrap(LastTx.amount))
                IN /\ r.ok
                   /\ AccountOf(engine, LastTx.client) = r.account
        ELSE AcceptedAndRecorded => pre.transactions[LastTx.tx] = LastTx

\* A Deposit with an amount, under a tx_id not journaled yet, was discarded
\* by the lock gate and left no journal entry.
C29_Witness ==
    /\ last # None
    /\ LastTx.transaction_type = Deposit
    /\ LastTx.amount # None
    /\ AccountOf(pre, LastTx.client).locked
    /\ LastTx.tx \notin DOMAIN pre.transactions
    /\ LastTx.tx \notin DOMAIN engine.transactions

\* The client ids of the records delivered to the engine so far.
DeliveredClients == {applied[i].client : i \in 1..Len(applied)}

\* C30: after any record reaches the engine (accepted, rejected or erroring)
\* one account exists for its client_id; an account created by a record that
\* made no ledger call (rejected or erroring) has available = held = total = 0
\* and locked = false; the snapshot holds one account for each client_id that
\* appeared in a delivered record and no others.
C30_LazyAccountCreation ==
    /\ DOMAIN engine.accounts = DeliveredClients
    /\ \A c \in DOMAIN engine.accounts : engine.accounts[c].client = c
    /\ Cardinality(get_all_accounts(engine.accounts))
         = Cardinality(DeliveredClients)
    /\ \A i \in 1..Len(applied) :
         LET before == OneAtATime(PaymentEngine_new, SubSeq(applied, 1, i - 1))
             after == process_transaction(before, applied[i]).engine
             c == applied[i].client
         IN /\ c \in DOMAIN after.accounts
            /\ DOMAIN after.accounts = DOMAIN before.accounts \cup {c}
            /\ c \notin DOMAIN before.accounts
                 /\ LedgerCall(before, applied[i]) = None
                 => after.accounts[c] = Account_new(c)

\* A finished run whose first record, a dispute-lifecycle record of a client
\* with no account, was rejected and left a zero account in the snapshot next
\* to a funded account of the other client.
C30_Witness ==
    /\ FeedDone
    /\ Len(applied) >= 2
    /\ applied[1].transaction_type \in {Dispute, Resolve, Chargeback}
    /\ DOMAIN engine.accounts = Clients
    /\ engine.accounts[applied[1].client] = Account_new(applied[1].client)
    /\ \E c \in Clients : engine.accounts[c].total > 0

\* C31: for every finite input the feed terminates, and from termination on
\* every parsed record has been applied, the records of a final chunk shorter
\* than the chunk size included, and no record is left in the chunk buffer;
\* no stream item is taken twice (each was skipped or parsed once).
C31_FeedTerminatesWithAllApplied ==
    <>[](/\ pc = "done"
         /\ applied = parsed
         /\ batch = <<>>
         /\ Len(parsed) + skipped = items)

\* A finished run with chunks of three that applied one full chunk and a
\* final chunk of one record.
C31_Witness ==
    /\ pc = "done"
    /\ feed_result = Some(Ok)
    /\ batch_size = 3
    /\ Len(parsed) = 4
    /\ applied = parsed
    /\ batch = <<>>

\* The sum of f over the finite set S.
RECURSIVE SumOver(_, _)
SumOver(S, f) ==
    IF S = {} THEN 0
    ELSE LET x == CHOOSE y \in S : TRUE
         IN f[x] + SumOver(S \ {x}, f)

\* The journal entries of client c in engine e whose disputed flag is true.
DisputedEntriesOf(e, c) ==
    {t \in DOMAIN e.transactions :
        /\ e.transactions[t].client = c
        /\ is_disputed(e.disputed, t)}

\* The sum of the amounts of those entries.
DisputedAmountOf(e, c) ==
    SumOver(DisputedEntriesOf(e, c),
            [t \in DisputedEntriesOf(e, c) |->
                Unwrap(e.transactions[t].amount)])

\* C32: when no tx id is used by more than one Deposit/Withdrawal record and
\* amounts are non-negative, each client's held equals the sum of the amounts
\* of that client's journal entries whose disputed flag is true.
C32_HeldIsSumOfDisputed ==
    (nonneg /\ ~reused) =>
        \A c \in Clients :
            AccountOf(engine, c).held = DisputedAmountOf(engine, c)

\* Two deposits of a client were under dispute at once, held their sum; one
\* was charged back, and held is the amount of the other.
C32_Witness ==
    /\ nonneg
    /\ ~reused
    /\ last # None
    /\ LastTx.transaction_type = Chargeback
    /\ AccountOf(pre, 1).held = 2
    /\ DisputedEntriesOf(pre, 1) = {1, 2}
    /\ DisputedEntriesOf(engine, 1) = {2}
    /\ AccountOf(engine, 1).held = 1
    /\ AccountOf(engine, 1).locked

\* The last record is a Dispute against an account that was locked when it
\* arrived, and it passed its checks: hold was called.
DisputeOnLocked ==
    /\ last # None
    /\ LastTx.transaction_type = Dispute
    /\ AccountOf(pre, LastTx.client).locked
    /\ DisputeChecksPass(pre, LastTx)

\* C33: once an account is locked, no record that follows changes its
\* available, held or total (nor its lock), a Dispute included: a Dispute
\* against a locked account fails its hold and leaves the transaction
\* undisputed, so what was held at the lock stays held.
C33_LockedAccountIsFrozen ==
    /\ \A c \in DOMAIN pre.accounts :
          pre.accounts[c].locked => AccountOf(engine, c) = pre.accounts[c]
    /\ DisputeOnLocked =>
          /\ AcceptedCall(pre, LastTx) = None
          /\ ~is_disputed(engine.disputed, LastTx.tx)

\* A Dispute that passed its checks arrived for a locked account that still
\* holds funds; the funds it asked for were available.
C33_Witness ==
    /\ DisputeOnLocked
    /\ AccountOf(pre, LastTx.client).held > 0
    /\ AccountOf(pre, LastTx.client).available >= EntryAmount(pre, LastTx)
    /\ AccountOf(engine, LastTx.client).held > 0

\* C34: every journal entry has an amount, so Dispute, Resolve and Chargeback
\* never return MissingAmount; process_transaction returns an error only for
\* a Deposit or Withdrawal record that lacks an amount, on an account that is
\* not locked, and the error is MissingAmount with the record's tx id.
C34_ErrorOnlyForAmountlessDepositOrWithdrawal ==
    /\ \A t \in DOMAIN engine.transactions :
          engine.transactions[t].amount # None
    /\ (last # None /\ result # Ok) =>
          /\ LastTx.transaction_type \in {Deposit, Withdrawal}
          /\ LastTx.amount = None
          /\ ~AccountOf(pre, LastTx.client).locked
          /\ result = MissingAmount(LastTx.tx)

\* A Withdrawal without an amount was refused with the error while the
\* journal holds entries, one of them under dispute.
C34_Witness ==
    /\ last # None
    /\ result # Ok
    /\ LastTx.transaction_type = Withdrawal
    /\ DOMAIN engine.transactions = {1, 2}
    /\ \E t \in TxIds : is_disputed(engine.disputed, t)

\* C35: each client's total is the sum of its accepted deposits minus the
\* sum of its accepted withdrawals minus the sum of the amounts charged back;
\* a Dispute or a Resolve record changes no total; no account has more than
\* one successful chargeback.
C35_ConservationOfFunds ==
    /\ \A c \in Clients :
          /\ AccountOf(engine, c).total
                = books[c].deposits - books[c].withdrawals
                    - books[c].chargebacks
          /\ books[c].chargeback_count <= 1
    /\ (last # None /\ LastTx.transaction_type \in {Dispute, Resolve}) =>
          \A c \in Clients :
              AccountOf(engine, c).total = AccountOf(pre, c).total

\* Two deposits, a withdrawal and a chargeback are on the books of a client
\* whose account is locked with a total of 0.
C35_Witness ==
    /\ books[1].deposits = 2
    /\ books[1].withdrawals = 1
    /\ books[1].chargebacks = 1
    /\ books[1].chargeback_count = 1
    /\ AccountOf(engine, 1).total = 0
    /\ AccountOf(engine, 1).locked

====
